---- MODULE Spec2Model ----
(***************************************************************************)
(* Model of the resilient resolution layer of vn-stock-service:            *)
(*   - the quote fallback chain of RealVNStockProvider.get_quote           *)
(*     (SSI -> CafeF -> AI estimate -> basic estimate),                    *)
(*   - the minimum-interval gate RealVNStockProvider._rate_limit,          *)
(*   - the retry wrappers (helpers.retry_with_backoff and the tenacity     *)
(*     decorated _call_ai_model of AIAdvisor / EnhancedAIAdvisor).         *)
(* Money is in VND (integers), confidence in percent, time in seconds.     *)
(***************************************************************************)
EXTENDS Integers, Sequences, FiniteSets, TLC

VARIABLES
    \* ---- one get_quote call (real_vn_provider.py) ----
    pc,          \* position inside get_quote
    ticker,      \* argument of the call
    inflight,    \* sources whose body is executing
    invoked,     \* sources entered during this call, in order
    finished,    \* source -> "none" | "ok" | "failed"
    requests,    \* network requests issued during this call, in order
    failureLog,  \* logger.warning / logger.error lines written by the handlers
    result,      \* the dict returned to the caller (NoResult before)
    returns,     \* number of values handed to the caller in this call
    raised,      \* TRUE when an exception escaped get_quote
    \* ---- _rate_limit gate shared by threads ----
    now,                \* time.time()
    last_request_time,  \* self.last_request_time
    gpc,                \* thread -> position inside _rate_limit
    current_time,       \* thread -> local current_time
    wake,               \* thread -> time at which its sleep ends
    passes,             \* times at which callers left the gate, in order
    gcalls,             \* thread -> number of _rate_limit calls started
    \* ---- one retry-wrapper call ----
    rpc,        \* "idle" | "try" | "sleep" | "done"
    rw,         \* which wrapper: "helper" | "ai" | "enhanced"
    rmax,       \* max_retries of the call
    rinit,      \* initial_delay of the call
    attempt,    \* loop variable: index of the current attempt, from 0
    attempts,   \* outcomes of the attempts made, in order
    sleeps,     \* delays slept, in order
    routcome,   \* what the wrapper handed to its caller
    \* ---- one VietCapitalProvider.get_quote call (vn_data_provider.py) ----
    vpc,        \* position inside get_quote
    vticker,    \* argument of the call
    vprimary,   \* what the primary API answered in this call
    vinvoked,   \* sources entered during this call, in order
    vrequests,  \* network requests issued during this call, in order
    vresult,    \* the dict returned to the caller (NoResult before)
    vraised,    \* exception that escaped get_quote (Absent when none)
    \* ---- one EnhancedAIAdvisor._process_portfolio_response call ----
    ppc,        \* "idle" | "called" | "done"
    presponse,  \* the response dict handed in: [shape, text]
    pmode,      \* self.mode
    ppositions, \* TRUE when the positions of portfolio_data hold numbers
    presult,    \* what the call handed back
    \* ---- one AIAdvisor.generate_advisory / EnhancedAIAdvisor.generate_portfolio_advisory call ----
    apc,        \* "idle" | "call" | "process" | "except" | "done"
    aw,         \* which advisor: "advisor" | "enhanced"
    astock,     \* stock_data of the call: [pl_pct_vs_avg, pct_to_target]
    areply,     \* what the model endpoint answered to the last request
    aouter,     \* attempts the decorator of generate_portfolio_advisory has started
    ainner,     \* attempts the decorator of _call_ai_model has made in the current outer attempt
    aposts,     \* requests.post calls made during this call
    aresult,    \* the advisory handed back
    araised,    \* TRUE when an exception escaped the call
    \* ---- EnhancedAdvisoryEngine.generate_dual_advisory_with_emails ----
    epc,        \* position inside the call
    emode,      \* self.ai_advisor.mode
    eoriginal,  \* local original_mode
    erecipient, \* TRUE when email_recipient was given
    eresults,   \* local results / the dict handed back
    \* ---- HoldingsOnlyProvider (holdings_provider.py) ----
    hnow,             \* datetime.now(), in whole seconds
    hticks,           \* number of times the clock has moved
    hfile,            \* version of the holdings file on disk (0: no file)
    cached_holdings,  \* self.cached_holdings: the version loaded (HNone: None)
    last_load_time,   \* self.last_load_time (HNone: None)
    hreturned         \* what the last get_holdings call handed back

qvars == <<pc, ticker, inflight, invoked, finished, requests, failureLog, result, returns, raised>>
gvars == <<now, last_request_time, gpc, current_time, wake, passes, gcalls>>
rvars == <<rpc, rw, rmax, rinit, attempt, attempts, sleeps, routcome>>
vvars == <<vpc, vticker, vprimary, vinvoked, vrequests, vresult, vraised>>
pvars == <<ppc, presponse, pmode, ppositions, presult>>
avars == <<apc, aw, astock, areply, aouter, ainner, aposts, aresult, araised>>
evars == <<epc, emode, eoriginal, erecipient, eresults>>
hvars == <<hnow, hticks, hfile, cached_holdings, last_load_time, hreturned>>
vars == <<qvars, gvars, rvars, vvars, pvars, avars, evars, hvars>>
\* what the actions of one part leave alone
notq == <<gvars, rvars, vvars, pvars, avars, evars, hvars>>
notg == <<qvars, rvars, vvars, pvars, avars, evars, hvars>>
notr == <<qvars, gvars, vvars, pvars, avars, evars, hvars>>
notv == <<qvars, gvars, rvars, pvars, avars, evars, hvars>>
notp == <<qvars, gvars, rvars, vvars, avars, evars, hvars>>
nota == <<qvars, gvars, rvars, vvars, pvars, evars, hvars>>
note == <<qvars, gvars, rvars, vvars, pvars, avars, hvars>>
noth == <<qvars, gvars, rvars, vvars, pvars, avars, evars>>

(***************************************************************************)
(* Bounds                                                                  *)
(***************************************************************************)
NumThreads == 2
MaxGateCalls == 2
MaxClock == 4
MaxRetriesBound == 3
MaxInitialDelay == 3
MaxTextLen == 3
MaxHoldingsTicks == 4
MaxFileVersion == 2

Max(a, b) == IF a >= b THEN a ELSE b
Min(a, b) == IF a <= b THEN a ELSE b
RECURSIVE Pow(_, _)
Pow(b, e) == IF e = 0 THEN 1 ELSE b * Pow(b, e - 1)
RECURSIVE SumSeq(_)
SumSeq(s) == IF s = <<>> THEN 0 ELSE Head(s) + SumSeq(Tail(s))
CountOf(seq, x) == Cardinality({i \in 1..Len(seq) : seq[i] = x})

(***************************************************************************)
(* Part 1: RealVNStockProvider.get_quote and its fallback chain            *)
(***************************************************************************)
Tickers == {"FPT", "VCB", "ZZZ"}
PriceValues == {-1000, 0, 25000}
Sources == <<"SSI", "CafeF", "AI", "Basic">>
FallibleSources == {"SSI", "CafeF", "AI"}

Absent == "absent"
BaseKeys == {"ticker", "exchange", "price", "change", "change_pct", "volume", "timestamp"}
EstimateKeys == BaseKeys \cup {"source", "confidence", "note"}

NoResult == [keys |-> {}, ticker |-> Absent, price |-> 0, source |-> Absent,
             confidence |-> 0, note |-> Absent]

\* the dict built at real_vn_provider.py:152-160 and :237-245
PlainQuote(t, p) == [keys |-> BaseKeys, ticker |-> t, price |-> p, source |-> Absent,
                     confidence |-> 0, note |-> Absent]

\* the dict built at real_vn_provider.py:339-350
AiQuote(t, p, c, n) == [keys |-> EstimateKeys, ticker |-> t, price |-> p,
                        source |-> "AI_Estimate", confidence |-> c, note |-> n]

\* the human-readable notes a returned dict carries
Warnings(r) == IF "note" \in r.keys THEN <<r.note>> ELSE <<>>

Ok(q, reqs) == [ok |-> TRUE, quote |-> q, reason |-> Absent, reqs |-> reqs]
Fail(why, reqs) == [ok |-> FALSE, quote |-> NoResult, reason |-> why, reqs |-> reqs]

\* ---- SSI: the try body of get_quote, lines 105-160 ----
SsiResponses ==
    [kind : {"token_error", "timeout", "http_error", "empty_data", "missing_close", "garbage_close"}, n : {0}]
    \cup [kind : {"num_close"}, n : PriceValues]

SsiBody(t, resp) ==
    CASE resp.kind = "token_error"   -> Fail("token request failed", <<"SSI_token">>)
      [] resp.kind = "timeout"       -> Fail("Timeout", <<"SSI_token", "SSI_price">>)
      [] resp.kind = "http_error"    -> Fail("HTTPError", <<"SSI_token", "SSI_price">>)
      [] resp.kind = "empty_data"    -> Fail("No price data", <<"SSI_token", "SSI_price">>)
      [] resp.kind = "garbage_close" -> Fail("ValueError", <<"SSI_token", "SSI_price">>)
      [] resp.kind = "missing_close" -> Ok(PlainQuote(t, 0), <<"SSI_token", "SSI_price">>)
      [] resp.kind = "num_close"     -> Ok(PlainQuote(t, resp.n), <<"SSI_token", "SSI_price">>)

\* ---- CafeF: the try body of _get_quote_cafef, lines 171-245 ----
CafefResponses ==
    [kind : {"http_error", "no_table", "no_row", "few_cells", "garbage_cell"}, n : {0}]
    \cup [kind : {"num_cell"}, n : PriceValues]

CafefBody(t, resp) ==
    CASE resp.kind = "http_error"   -> Fail("HTTPError", <<"CafeF">>)
      [] resp.kind = "no_table"     -> Fail("Could not find price table", <<"CafeF">>)
      [] resp.kind = "no_row"       -> Fail("Could not find price row", <<"CafeF">>)
      [] resp.kind = "few_cells"    -> Fail("Not enough data in price row", <<"CafeF">>)
      [] resp.kind = "garbage_cell" -> Fail("ValueError", <<"CafeF">>)
      [] resp.kind = "num_cell"     -> Ok(PlainQuote(t, resp.n), <<"CafeF">>)

\* ---- APILogger.log_ai_request(provider, model, prompt, request_id=None) ----
LogAiRequestRequired == {"provider", "model", "prompt"}
LogAiRequestParams == {"provider", "model", "prompt", "request_id"}
\* a call binds: TRUE, or TypeError (FALSE)
log_ai_request(kwargs) == LogAiRequestRequired \subseteq kwargs /\ kwargs \subseteq LogAiRequestParams

\* keyword arguments passed at real_vn_provider.py:295-301 and ai_advisor.py:168-174
FallbackLogKwargs == {"api_name", "method", "url", "prompt", "model_config"}
\* keyword arguments passed at enhanced_ai_advisor.py:786-790
EnhancedLogKwargs == {"provider", "model", "prompt"}

\* ---- APILogger.log_ai_response(request_id, provider, response_text, tokens_used, duration_ms, error) ----
LogAiResponseRequired == {"request_id", "provider", "response_text"}
LogAiResponseParams == {"request_id", "provider", "response_text", "tokens_used", "duration_ms", "error"}
log_ai_response(kwargs) == LogAiResponseRequired \subseteq kwargs /\ kwargs \subseteq LogAiResponseParams

\* keyword arguments passed at real_vn_provider.py:314-322
FallbackLogResponseKwargs == {"request_id", "api_name", "status_code", "ai_response",
                              "response_headers", "duration_ms", "usage_stats"}

\* ---- AI estimate: the try body of _get_quote_ai_fallback, lines 253-353 ----
\* what the generative-model endpoint would answer
AiReplies ==
    [kind : {"http_error", "no_candidates", "no_json", "bad_json", "garbage_price", "missing_price"},
     price : {0}, conf : {50}]
    \cup [kind : {"json"}, price : PriceValues, conf : {20, 50, 90}]

AiBody(t, reply) ==
    IF ~log_ai_request(FallbackLogKwargs) THEN Fail("TypeError", <<>>)
    ELSE CASE reply.kind = "http_error"    -> Fail("HTTPError", <<"Gemini">>)
           [] reply.kind = "no_candidates" -> Fail("Could not parse AI response", <<"Gemini">>)
           [] OTHER ->
                IF ~log_ai_response(FallbackLogResponseKwargs) THEN Fail("TypeError", <<"Gemini">>)
                ELSE CASE reply.kind = "no_json"       -> Fail("Could not parse AI response", <<"Gemini">>)
                       [] reply.kind = "bad_json"      -> Fail("JSONDecodeError", <<"Gemini">>)
                       [] reply.kind = "garbage_price" -> Fail("ValueError", <<"Gemini">>)
                       [] reply.kind = "missing_price" ->
                            Ok(AiQuote(t, 50000, reply.conf, "AI-generated price estimate"), <<"Gemini">>)
                       [] reply.kind = "json" ->
                            Ok(AiQuote(t, reply.price, reply.conf, "AI-generated price estimate"), <<"Gemini">>)

\* ---- basic estimate: _get_basic_price_estimate, lines 361-393 ----
price_estimates ==
    [t \in {"FPT", "VCB", "TCB", "ACB", "BID", "HPG", "MSN", "VNM", "KDH", "HDG", "CMG"} |->
        CASE t = "FPT" -> 125000 [] t = "VCB" -> 65000 [] t = "TCB" -> 40000
          [] t = "ACB" -> 25000  [] t = "BID" -> 40000 [] t = "HPG" -> 25000
          [] t = "MSN" -> 75000  [] t = "VNM" -> 60000 [] t = "KDH" -> 30000
          [] t = "HDG" -> 27000  [] t = "CMG" -> 40000]

\* a variant labelled like the AI estimate it was copied from
BasicQuoteMislabelled(t) ==
    [keys |-> EstimateKeys, ticker |-> t,
     price |-> IF t \in DOMAIN price_estimates THEN price_estimates[t] ELSE 50000,
     source |-> "AI_Estimate", confidence |-> 50, note |-> "Basic fallback price estimate"]

\* a variant whose dict has no "note" entry
BasicQuoteNoNote(t) ==
    [keys |-> EstimateKeys \ {"note"}, ticker |-> t,
     price |-> IF t \in DOMAIN price_estimates THEN price_estimates[t] ELSE 50000,
     source |-> "Basic_Estimate", confidence |-> 30, note |-> Absent]

BasicQuote(t) ==
    [keys |-> EstimateKeys, ticker |-> t,
     price |-> IF t \in DOMAIN price_estimates THEN price_estimates[t] ELSE 50000,
     source |-> "Basic_Estimate", confidence |-> 30, note |-> "Basic fallback price estimate"]

QInit ==
    /\ pc = "idle"
    /\ ticker = Absent
    /\ inflight = {}
    /\ invoked = <<>>
    /\ finished = [s \in {"SSI", "CafeF", "AI", "Basic"} |-> "none"]
    /\ requests = <<>>
    /\ failureLog = <<>>
    /\ result = NoResult
    /\ returns = 0
    /\ raised = FALSE

\* a variant in which a success does not end the call ("best of all")
FinishKeepGoing(src, o, handler) ==
    /\ inflight' = inflight \ {src}
    /\ requests' = requests \o o.reqs
    /\ finished' = [finished EXCEPT ![src] = IF o.ok THEN "ok" ELSE "failed"]
    /\ pc' = handler
    /\ result' = IF o.ok THEN o.quote ELSE result
    /\ returns' = returns
    /\ failureLog' = failureLog
    /\ UNCHANGED <<ticker, invoked, raised>>

\* a source body ran to its end: either it returns its dict to the caller of
\* get_quote, or its exception enters the except handler named by handler
\* ("uncaught": no handler encloses the body and the exception leaves get_quote)
Finish(src, o, handler) ==
    /\ inflight' = inflight \ {src}
    /\ requests' = requests \o o.reqs
    /\ finished' = [finished EXCEPT ![src] = IF o.ok THEN "ok" ELSE "failed"]
    /\ IF o.ok
       THEN /\ pc' = "done"
            /\ result' = o.quote
            /\ returns' = returns + 1
            /\ failureLog' = failureLog
            /\ raised' = raised
       ELSE /\ failureLog' = Append(failureLog, [source |-> src, reason |-> o.reason])
            /\ UNCHANGED <<result, returns>>
            /\ IF handler = "uncaught"
               THEN pc' = "done" /\ raised' = TRUE
               ELSE pc' = handler /\ raised' = raised
    /\ UNCHANGED <<ticker, invoked>>

Enter(src, at) ==
    /\ pc' = at
    /\ inflight' = inflight \cup {src}
    /\ invoked' = Append(invoked, src)
    /\ UNCHANGED <<finished, requests, failureLog, result, returns, raised>>

\* a variant that launches the CafeF scrape together with the SSI request
get_quote_concurrent(t) ==
    /\ pc = "idle"
    /\ ticker' = t
    /\ pc' = "ssi"
    /\ inflight' = {"SSI", "CafeF"}
    /\ invoked' = <<"SSI", "CafeF">>
    /\ UNCHANGED <<finished, requests, failureLog, result, returns, raised>>
    /\ UNCHANGED notq

\* caller enters get_quote; the try block (SSI) starts
get_quote(t) ==
    /\ pc = "idle"
    /\ ticker' = t
    /\ Enter("SSI", "ssi")
    /\ UNCHANGED notq

\* lines 105-160
get_quote_try(resp) ==
    /\ pc = "ssi"
    /\ Finish("SSI", SsiBody(ticker, resp), "except_ssi")
    /\ UNCHANGED notq

\* lines 161-164: the handler calls _get_quote_cafef
get_quote_except ==
    /\ pc = "except_ssi"
    /\ Enter("CafeF", "cafef")
    /\ UNCHANGED <<ticker, notq>>

\* lines 171-245
get_quote_cafef_try(resp) ==
    /\ pc = "cafef"
    /\ Finish("CafeF", CafefBody(ticker, resp), "except_cafef")
    /\ UNCHANGED notq

\* lines 246-249: the handler calls _get_quote_ai_fallback
get_quote_cafef_except ==
    /\ pc = "except_cafef"
    /\ Enter("AI", "ai")
    /\ UNCHANGED <<ticker, notq>>

\* a variant without the try/except of lines 253 and 355
get_quote_ai_fallback_unguarded(reply) ==
    /\ pc = "ai"
    /\ Finish("AI", AiBody(ticker, reply), "uncaught")
    /\ UNCHANGED notq

\* lines 253-353
get_quote_ai_fallback_try(reply) ==
    /\ pc = "ai"
    /\ Finish("AI", AiBody(ticker, reply), "except_ai")
    /\ UNCHANGED notq

\* a variant whose handler goes back to the CafeF scrape
get_quote_ai_fallback_except_again ==
    /\ pc = "except_ai"
    /\ Enter("CafeF", "cafef")
    /\ UNCHANGED <<ticker, notq>>

\* lines 355-359: the handler calls _get_basic_price_estimate
get_quote_ai_fallback_except ==
    /\ pc = "except_ai"
    /\ Enter("Basic", "basic")
    /\ UNCHANGED <<ticker, notq>>

\* lines 361-393
get_basic_price_estimate ==
    /\ pc = "basic"
    /\ Finish("Basic", Ok(BasicQuote(ticker), <<>>), "uncaught")
    /\ UNCHANGED notq

\* the caller consumes the value; the provider is ready for the next call
get_quote_return ==
    /\ pc = "done"
    /\ pc' = "idle"
    /\ ticker' = Absent
    /\ inflight' = {}
    /\ invoked' = <<>>
    /\ finished' = [s \in {"SSI", "CafeF", "AI", "Basic"} |-> "none"]
    /\ requests' = <<>>
    /\ failureLog' = <<>>
    /\ result' = NoResult
    /\ returns' = 0
    /\ raised' = FALSE
    /\ UNCHANGED notq

(***************************************************************************)
(* Part 2: RealVNStockProvider._rate_limit called from several threads     *)
(***************************************************************************)
min_request_interval == 1
Threads == 1..NumThreads

GInit ==
    /\ now = min_request_interval
    /\ last_request_time = 0
    /\ gpc = [t \in Threads |-> "idle"]
    /\ current_time = [t \in Threads |-> 0]
    /\ wake = [t \in Threads |-> 0]
    /\ passes = <<>>
    /\ gcalls = [t \in Threads |-> 0]

\* line 43: current_time = time.time()
rate_limit_read_clock(t) ==
    /\ gpc[t] = "idle"
    /\ gcalls[t] < MaxGateCalls
    /\ gcalls' = [gcalls EXCEPT ![t] = @ + 1]
    /\ current_time' = [current_time EXCEPT ![t] = now]
    /\ gpc' = [gpc EXCEPT ![t] = "check"]
    /\ UNCHANGED <<now, last_request_time, wake, passes, notg>>

\* lines 44-46: time_since_last, the comparison and the start of the sleep
rate_limit_check(t) ==
    /\ gpc[t] = "check"
    /\ LET time_since_last == current_time[t] - last_request_time
       IN IF time_since_last < min_request_interval
          THEN /\ wake' = [wake EXCEPT ![t] = now + (min_request_interval - time_since_last)]
               /\ gpc' = [gpc EXCEPT ![t] = "sleep"]
          ELSE /\ gpc' = [gpc EXCEPT ![t] = "stamp"]
               /\ wake' = wake
    /\ UNCHANGED <<now, last_request_time, current_time, passes, gcalls, notg>>

\* line 46: time.sleep returns once the delay has elapsed
rate_limit_wake(t) ==
    /\ gpc[t] = "sleep"
    /\ now >= wake[t]
    /\ gpc' = [gpc EXCEPT ![t] = "stamp"]
    /\ UNCHANGED <<now, last_request_time, current_time, wake, passes, gcalls, notg>>

\* line 47: self.last_request_time = time.time(); the caller leaves the gate
rate_limit_stamp(t) ==
    /\ gpc[t] = "stamp"
    /\ last_request_time' = now
    /\ passes' = Append(passes, now)
    /\ gpc' = [gpc EXCEPT ![t] = "idle"]
    /\ UNCHANGED <<now, current_time, wake, gcalls, notg>>

\* the wall clock advances
Tick ==
    /\ now < MaxClock
    /\ now' = now + 1
    /\ UNCHANGED <<last_request_time, gpc, current_time, wake, passes, gcalls, notg>>

(***************************************************************************)
(* Part 3: the retry wrappers                                              *)
(***************************************************************************)
Wrappers == {"helper", "ai", "enhanced"}
TerminalErrors == {"http_400", "http_404"}
TransientErrors == {"timeout", "http_500", "http_429"}
Errors == TerminalErrors \cup TransientErrors

backoff_factor == 2
\* @retry(stop=stop_after_attempt(3), wait=wait_exponential(multiplier=1, min=4, max=10))
stop_after_attempt == 3
wait_multiplier == 1
wait_min == 4
wait_max == 10

NoOutcome == [kind |-> "none", exc |-> Absent, cause |-> Absent]

\* what one execution of the wrapped operation can do
\*   helper:   func() is any callable
\*   ai:       AIAdvisor._call_gemini, whose first statement after building the
\*             payload is log_ai_request(api_name=..., ...)  (ai_advisor.py:168)
\*   enhanced: the body of EnhancedAIAdvisor._call_ai_model (lines 785-843)
OperationOutcomes(w) ==
    CASE w = "helper"   -> {"ok"} \cup Errors
      [] w = "ai"       -> IF log_ai_request(FallbackLogKwargs) THEN {"ok"} \cup Errors ELSE {"TypeError"}
      [] w = "enhanced" -> IF log_ai_request(EnhancedLogKwargs) THEN {"ok"} \cup Errors ELSE {"TypeError"}

\* a variant with an off-by-one loop bound
AttemptLimitOffByOne(w, maxr) == IF w = "helper" THEN maxr + 2 ELSE stop_after_attempt + 1

\* total number of attempts the wrapper allows
\*   helpers.py:169  for attempt in range(max_retries + 1)
\*   tenacity        stop_after_attempt(3)
AttemptLimit(w, maxr) == IF w = "helper" THEN maxr + 1 ELSE stop_after_attempt

\* does the wrapper try again after this error (attempts still being left)?
\*   helpers.py:172  except exceptions  with exceptions = (Exception,)
\*   tenacity        default retry=retry_if_exception_type(Exception)
Retryable(w, err) == TRUE

\* a variant whose decorated wrappers have no lower clamp on the wait
DelayNoFloor(w, init, a) ==
    IF w = "helper" THEN init * Pow(backoff_factor, a)
    ELSE Min(wait_multiplier * Pow(2, a), wait_max)

\* a variant that sleeps the same delay before every retry
DelayConstant(w, init, a) == IF w = "helper" THEN init ELSE wait_multiplier

\* delay slept after the failure of attempt number a (a counted from 0)
\*   helpers.py:177  delay = initial_delay * (backoff_factor ** attempt)
\*   tenacity wait_exponential: max(min, min(multiplier * 2 ** (attempt_number - 1), max)),
\*   attempt_number counted from 1
Delay(w, init, a) ==
    IF w = "helper" THEN init * Pow(backoff_factor, a)
    ELSE Max(wait_min, Min(wait_multiplier * Pow(2, a), wait_max))

\* a variant in which the loop ends without raising and the call returns None
ExhaustedReturnsNone(w, err) == [kind |-> "returned", exc |-> Absent, cause |-> Absent]

\* what the caller gets when the last allowed attempt failed with err
\*   helpers.py:173-175  raise  (the exception of the last attempt)
\*   tenacity (reraise not set): raises RetryError wrapping the last attempt
Exhausted(w, err) ==
    IF w = "helper" THEN [kind |-> "raised", exc |-> err, cause |-> err]
    ELSE [kind |-> "raised", exc |-> "RetryError", cause |-> err]

RInit ==
    /\ rpc = "idle"
    /\ rw = "helper"
    /\ rmax = 0
    /\ rinit = 1
    /\ attempt = 0
    /\ attempts = <<>>
    /\ sleeps = <<>>
    /\ routcome = NoOutcome

\* the caller invokes a wrapper
retry_call(w, maxr, init) ==
    /\ rpc = "idle"
    /\ rw' = w
    /\ rmax' = IF w = "helper" THEN maxr ELSE stop_after_attempt - 1
    /\ rinit' = IF w = "helper" THEN init ELSE wait_multiplier
    /\ rpc' = "try"
    /\ attempt' = 0
    /\ attempts' = <<>>
    /\ sleeps' = <<>>
    /\ routcome' = NoOutcome
    /\ UNCHANGED notr

\* one execution of the wrapped operation and the wrapper's reaction to it
retry_attempt(o) ==
    /\ rpc = "try"
    /\ o \in OperationOutcomes(rw)
    /\ attempts' = Append(attempts, o)
    /\ IF o = "ok"
       THEN /\ routcome' = [kind |-> "returned", exc |-> Absent, cause |-> Absent]
            /\ rpc' = "done"
            /\ UNCHANGED <<attempt, sleeps>>
       ELSE IF attempt + 1 >= AttemptLimit(rw, rmax) \/ ~Retryable(rw, o)
            THEN /\ routcome' = Exhausted(rw, o)
                 /\ rpc' = "done"
                 /\ UNCHANGED <<attempt, sleeps>>
            ELSE /\ sleeps' = Append(sleeps, Delay(rw, rinit, attempt))
                 /\ rpc' = "sleep"
                 /\ UNCHANGED <<attempt, routcome>>
    /\ UNCHANGED <<rw, rmax, rinit, notr>>

\* time.sleep(delay) returns; the loop moves to the next attempt
retry_sleep_done ==
    /\ rpc = "sleep"
    /\ attempt' = attempt + 1
    /\ rpc' = "try"
    /\ UNCHANGED <<rw, rmax, rinit, attempts, sleeps, routcome, notr>>

\* the caller has the outcome; the wrapper can be called again
retry_return ==
    /\ rpc = "done"
    /\ rpc' = "idle"
    /\ UNCHANGED <<rw, rmax, rinit, attempt, attempts, sleeps, routcome, notr>>

(***************************************************************************)
(* Part 4: VietCapitalProvider.get_quote (vn_data_provider.py)             *)
(***************************************************************************)
\* answers of the primary API to GET /securities/{ticker}/quote
VcResponses ==
    [kind : {"network_error", "timeout", "http_500", "http_400", "http_429", "http_404", "missing_price"},
     n : {0}]
    \cup [kind : {"last_price"}, n : PriceValues]

\* exception classes: requests.RequestException and its subclasses, and
\* base.py:84-94  DataProviderError <- RateLimitError, DataNotFoundError
RequestExceptions == {"ConnectionError", "Timeout", "HTTPError"}
DataProviderErrors == {"DataProviderError", "RateLimitError", "DataNotFoundError"}

\* the try body of get_quote, lines 37-95: the exception it raises, or Absent
VcPrimaryRaises(resp) ==
    CASE resp.kind = "network_error" -> "ConnectionError"
      [] resp.kind = "timeout"       -> "Timeout"
      [] resp.kind = "http_429"      -> "RateLimitError"
      [] resp.kind = "http_404"      -> "DataNotFoundError"
      [] resp.kind = "http_500"      -> "HTTPError"
      [] resp.kind = "http_400"      -> "HTTPError"
      [] OTHER                       -> Absent

\* line 97: except requests.RequestException
VcHandlerCatches(exc) == exc \in RequestExceptions

\* the try body of _get_quote_ai_fallback, lines 108-186 (no APILogger call)
VcAiBody(t, reply) ==
    CASE reply.kind = "http_error"    -> Fail("HTTPError", <<"Gemini">>)
      [] reply.kind = "no_candidates" -> Fail("Could not parse AI response", <<"Gemini">>)
      [] reply.kind = "no_json"       -> Fail("Could not parse AI response", <<"Gemini">>)
      [] reply.kind = "bad_json"      -> Fail("JSONDecodeError", <<"Gemini">>)
      [] reply.kind = "garbage_price" -> Fail("ValueError", <<"Gemini">>)
      [] reply.kind = "missing_price" ->
            Ok(AiQuote(t, 50000, reply.conf, "AI-generated price estimate"), <<"Gemini">>)
      [] reply.kind = "json" ->
            Ok(AiQuote(t, reply.price, reply.conf, "AI-generated price estimate"), <<"Gemini">>)

VInit ==
    /\ vpc = "idle"
    /\ vticker = Absent
    /\ vprimary = Absent
    /\ vinvoked = <<>>
    /\ vrequests = <<>>
    /\ vresult = NoResult
    /\ vraised = Absent

\* caller enters get_quote
vc_get_quote(t) ==
    /\ vpc = "idle"
    /\ vpc' = "primary"
    /\ vticker' = t
    /\ vprimary' = Absent
    /\ vinvoked' = <<"VietCapital">>
    /\ vrequests' = <<>>
    /\ vresult' = NoResult
    /\ vraised' = Absent
    /\ UNCHANGED notv

\* lines 37-97: the primary request, and where its exception goes
vc_get_quote_try(resp) ==
    /\ vpc = "primary"
    /\ vprimary' = resp.kind
    /\ vrequests' = Append(vrequests, "VietCapital")
    /\ LET exc == VcPrimaryRaises(resp)
       IN IF exc = Absent
          THEN /\ vpc' = "done"
               /\ vresult' = PlainQuote(vticker, resp.n)
               /\ vraised' = Absent
          ELSE IF VcHandlerCatches(exc)
               THEN /\ vpc' = "except"
                    /\ UNCHANGED <<vresult, vraised>>
               ELSE /\ vpc' = "done"
                    /\ vraised' = exc
                    /\ vresult' = vresult
    /\ UNCHANGED <<vticker, vinvoked, notv>>

\* lines 97-101: the handler calls _get_quote_ai_fallback
vc_get_quote_except ==
    /\ vpc = "except"
    /\ vpc' = "ai"
    /\ vinvoked' = Append(vinvoked, "AI")
    /\ UNCHANGED <<vticker, vprimary, vrequests, vresult, vraised, notv>>

\* lines 108-186
vc_ai_fallback_try(reply) ==
    /\ vpc = "ai"
    /\ LET o == VcAiBody(vticker, reply)
       IN /\ vrequests' = vrequests \o o.reqs
          /\ IF o.ok
             THEN vpc' = "done" /\ vresult' = o.quote
             ELSE vpc' = "except_ai" /\ vresult' = vresult
    /\ UNCHANGED <<vticker, vprimary, vinvoked, vraised, notv>>

\* lines 188-192 and 194-226: the handler returns the basic estimate
vc_ai_fallback_except ==
    /\ vpc = "except_ai"
    /\ vpc' = "done"
    /\ vinvoked' = Append(vinvoked, "Basic")
    /\ vresult' = BasicQuote(vticker)
    /\ UNCHANGED <<vticker, vprimary, vrequests, vraised, notv>>

\* the caller has the value or the exception
vc_return ==
    /\ vpc = "done"
    /\ vpc' = "idle"
    /\ UNCHANGED <<vticker, vprimary, vinvoked, vrequests, vresult, vraised, notv>>

(***************************************************************************)
(* Part 5: EnhancedAIAdvisor._process_portfolio_response and               *)
(* _extract_data_with_regex (enhanced_ai_advisor.py:845-1019)              *)
(* A text is a sequence of tokens: a punctuation character, a space, a     *)
(* digit, or a word (a run of letters and underscores).                    *)
(***************************************************************************)
LB == "{"
RB == "}"
LK == "["
RK == "]"
CM == ","
CL == ":"
QT == "\""
SP == " "
Digits == {"1", "7"}
Words == {"a", "b", "overall_score", "overall_risk", "high", "prose"}

At(s, i) == IF i >= 1 /\ i <= Len(s) THEN s[i] ELSE "eof"

RECURSIVE SkipWs(_, _)
SkipWs(s, i) == IF At(s, i) = SP THEN SkipWs(s, i + 1) ELSE i

RECURSIVE SkipWsBack(_, _)
SkipWsBack(s, i) == IF At(s, i) = SP THEN SkipWsBack(s, i - 1) ELSE i

RECURSIVE SkipDigits(_, _)
SkipDigits(s, i) == IF At(s, i) \in Digits THEN SkipDigits(s, i + 1) ELSE i

RECURSIVE NextQuote(_, _)
NextQuote(s, i) == IF i > Len(s) THEN 0 ELSE IF s[i] = QT THEN i ELSE NextQuote(s, i + 1)

RECURSIVE PrevQuote(_, _)
PrevQuote(s, i) == IF i < 1 THEN 0 ELSE IF s[i] = QT THEN i ELSE PrevQuote(s, i - 1)

RECURSIVE FirstIndex(_, _, _)
FirstIndex(s, x, i) == IF i > Len(s) THEN 0 ELSE IF s[i] = x THEN i ELSE FirstIndex(s, x, i + 1)

RECURSIVE PrevIndexOf(_, _, _)
PrevIndexOf(s, x, i) == IF i < 1 THEN 0 ELSE IF s[i] = x THEN i ELSE PrevIndexOf(s, x, i - 1)
LastIndex(s, x) == PrevIndexOf(s, x, Len(s))

RECURSIVE Without(_, _, _)
Without(s, i, K) ==
    IF i > Len(s) THEN <<>>
    ELSE (IF i \in K THEN <<>> ELSE <<s[i]>>) \o Without(s, i + 1, K)

RECURSIVE Repeat(_, _)
Repeat(x, n) == IF n <= 0 THEN <<>> ELSE <<x>> \o Repeat(x, n - 1)

DigitValue(d) == IF d = "1" THEN 1 ELSE 7
\* int() of a run of digits
RECURSIVE IntOf(_)
IntOf(ds) == IF ds = <<>> THEN 0 ELSE 10 * IntOf(SubSeq(ds, 1, Len(ds) - 1)) + DigitValue(ds[Len(ds)])

\* ---- json.loads: position after the value that starts at i, 0 when none ----
ParseString(s, i) ==
    LET j == NextQuote(s, i + 1) IN IF At(s, i) = QT /\ j # 0 THEN j + 1 ELSE 0

RECURSIVE ParseValue(_, _), ParseMembers(_, _), ParseElements(_, _)
ParseValue(s, i) ==
    CASE At(s, i) = QT       -> ParseString(s, i)
      [] At(s, i) \in Digits -> SkipDigits(s, i)
      [] At(s, i) = LB       -> LET j == SkipWs(s, i + 1)
                                IN IF At(s, j) = RB THEN j + 1 ELSE ParseMembers(s, j)
      [] At(s, i) = LK       -> LET j == SkipWs(s, i + 1)
                                IN IF At(s, j) = RK THEN j + 1 ELSE ParseElements(s, j)
      [] OTHER               -> 0

ParseMembers(s, i) ==
    LET k == ParseString(s, i) IN
    IF k = 0 THEN 0 ELSE
    LET c == SkipWs(s, k) IN
    IF At(s, c) # CL THEN 0 ELSE
    LET v == ParseValue(s, SkipWs(s, c + 1)) IN
    IF v = 0 THEN 0 ELSE
    LET m == SkipWs(s, v) IN
    CASE At(s, m) = CM -> ParseMembers(s, SkipWs(s, m + 1))
      [] At(s, m) = RB -> m + 1
      [] OTHER         -> 0

ParseElements(s, i) ==
    LET v == ParseValue(s, i) IN
    IF v = 0 THEN 0 ELSE
    LET m == SkipWs(s, v) IN
    CASE At(s, m) = CM -> ParseElements(s, SkipWs(s, m + 1))
      [] At(s, m) = RK -> m + 1
      [] OTHER         -> 0

\* json.loads(s) succeeds
json_loads(s) ==
    LET e == ParseValue(s, SkipWs(s, 1)) IN e # 0 /\ SkipWs(s, e) = Len(s) + 1

\* the value json.loads builds, written without insignificant white space
RECURSIVE CanonFrom(_, _, _)
CanonFrom(s, i, inString) ==
    IF i > Len(s) THEN <<>>
    ELSE IF s[i] = QT THEN <<QT>> \o CanonFrom(s, i + 1, ~inString)
    ELSE IF s[i] = SP /\ ~inString THEN CanonFrom(s, i + 1, inString)
    ELSE <<s[i]>> \o CanonFrom(s, i + 1, inString)
ParsedValue(s) == CanonFrom(s, 1, FALSE)

\* a well-formed text that is one JSON object
IsJsonObject(s) == At(s, SkipWs(s, 1)) = LB /\ json_loads(s)

\* ---- the regular expressions of _process_portfolio_response ----
\* line 853: re.search(r'\{.*\}', ai_response, re.DOTALL); <<>> when no match
search_braces(s) ==
    LET i == FirstIndex(s, LB, 1)
        j == LastIndex(s, RB)
    IN IF i # 0 /\ j > i THEN SubSeq(s, i, j) ELSE <<>>

\* a variant that leaves trailing commas in place
sub_trailing_commas_kept(s) == s

\* line 859: re.sub(r',(\s*[}\]])', r'\1', json_text)
sub_trailing_commas(s) ==
    Without(s, 1, {k \in 1..Len(s) : s[k] = CM /\ At(s, SkipWs(s, k + 1)) \in {RB, RK}})

\* line 862: re.sub(r'"[^"]*"\s*$', '""', json_text)
sub_incomplete_string(s) ==
    LET q2 == LastIndex(s, QT)
        q1 == PrevQuote(s, q2 - 1)
    IN IF q2 # 0 /\ q1 # 0 /\ SkipWs(s, q2 + 1) = Len(s) + 1
       THEN SubSeq(s, 1, q1 - 1) \o <<QT, QT>>
       ELSE s

\* line 865: re.sub(r':\s*$', ': ""', json_text)
sub_incomplete_pair(s) ==
    LET c == SkipWsBack(s, Len(s))
    IN IF At(s, c) = CL THEN SubSeq(s, 1, c - 1) \o <<CL, SP, QT, QT>> ELSE s

\* line 868: re.sub(r',\s*"[^"]*"\s*:\s*"[^"]*$', '', json_text)
sub_incomplete_member(s) ==
    LET q3 == LastIndex(s, QT)
        q2 == PrevQuote(s, q3 - 1)
        q1 == PrevQuote(s, q2 - 1)
        c  == SkipWs(s, q2 + 1)
        k  == SkipWsBack(s, q1 - 1)
    IN IF /\ q3 # 0 /\ q2 # 0 /\ q1 # 0
          /\ At(s, c) = CL /\ SkipWs(s, c + 1) = q3
          /\ At(s, k) = CM
       THEN SubSeq(s, 1, k - 1)
       ELSE s

\* lines 871-879: append the closing braces, then the closing brackets, missing by count
balance_brackets(s) ==
    LET withBraces == s \o Repeat(RB, CountOf(s, LB) - CountOf(s, RB))
    IN withBraces \o Repeat(RK, CountOf(withBraces, LK) - CountOf(withBraces, RK))

\* lines 855-879: json_text after all clean-up steps
repair(json_text) ==
    balance_brackets(sub_incomplete_member(sub_incomplete_pair(
        sub_incomplete_string(sub_trailing_commas(json_text)))))

\* ---- _extract_data_with_regex, lines 923-1019 ----
\* line 932: re.search(r'"overall_score":\s*(\d+)', ai_response): group 1, <<>> when no match
RECURSIVE score_match_from(_, _)
score_match_from(s, i) ==
    IF i > Len(s) THEN <<>>
    ELSE LET d == SkipWs(s, i + 4)
         IN IF /\ At(s, i) = QT /\ At(s, i + 1) = "overall_score" /\ At(s, i + 2) = QT
               /\ At(s, i + 3) = CL /\ At(s, d) \in Digits
            THEN SubSeq(s, d, SkipDigits(s, d) - 1)
            ELSE score_match_from(s, i + 1)
score_match(s) == score_match_from(s, 1)

\* line 951: re.search(r'"overall_risk":\s*"([^"]+)"', ai_response): group 1, <<>> when no match
RECURSIVE risk_match_from(_, _)
risk_match_from(s, i) ==
    IF i > Len(s) THEN <<>>
    ELSE LET o == SkipWs(s, i + 4)
             c == NextQuote(s, o + 1)
         IN IF /\ At(s, i) = QT /\ At(s, i + 1) = "overall_risk" /\ At(s, i + 2) = QT
               /\ At(s, i + 3) = CL /\ At(s, o) = QT /\ c > o + 1
            THEN SubSeq(s, o + 1, c - 1)
            ELSE risk_match_from(s, i + 1)
risk_match(s) == risk_match_from(s, 1)

AdvisoryModes == {"long_term", "entry_exit_strategy"}
NoScore == -1

\* the dicts the call can hand back; path names the return statement taken
PResult(path, value, text, health, score, risk, method, extra) ==
    [path |-> path, raised |-> FALSE, value |-> value, json_text |-> text,
     portfolio_health |-> health, overall_score |-> score, overall_risk |-> risk,
     extraction_method |-> method, extra |-> extra]

NoPResult == PResult("none", <<>>, <<>>, FALSE, NoScore, <<>>, Absent, {})
PRaised == [NoPResult EXCEPT !.path = "raised", !.raised = TRUE]

\* lines 1072-1099
fallback_portfolio_advisory ==
    PResult("fallback", <<>>, <<>>, TRUE, 6, <<>>, Absent, {"metadata", "error"})

\* result of _extract_data_with_regex (lines 925-1015); "raises" stands for an
\* exception inside its try block (arithmetic on a position without numbers)
extract_data_with_regex_try(text, mode, positions) ==
    IF mode = "entry_exit_strategy" /\ ~positions THEN PRaised
    ELSE LET sm == score_match(text)
             rm == risk_match(text)
         IN PResult("regex_fallback", <<>>, <<>>,
                    sm # <<>>, IF sm # <<>> THEN IntOf(sm) ELSE NoScore,
                    IF rm # <<>> THEN rm ELSE <<"medium">>, Absent, {})

\* lines 923-1019 with the handler of lines 1017-1019: None (NoPResult) on an exception
extract_data_with_regex(text, mode, positions) ==
    LET r == extract_data_with_regex_try(text, mode, positions)
    IN IF r.raised THEN NoPResult ELSE r

\* a variant that leaves the analysis unmarked
mark_extraction_unmarked(analysis, method, extra) ==
    [analysis EXCEPT !.extra = {"_complete_ai_response", "metadata"} \cup extra]

\* lines 898-899 and 902-904: analysis['_extraction_method'] = method, and the
\* other keys the handler and lines 906-912 add
mark_extraction(analysis, method, extra) ==
    [analysis EXCEPT !.extraction_method = method,
                     !.extra = {"_complete_ai_response", "_extraction_method", "metadata"} \cup extra]

\* shapes of the response dict
ResponseShapes == {"not_a_dict", "no_candidates", "empty_candidates", "malformed_candidate", "text"}

\* the try body of _process_portfolio_response, lines 848-917
process_portfolio_response_try(resp, mode, positions) ==
    CASE resp.shape \in {"not_a_dict", "malformed_candidate"} -> PRaised
      [] resp.shape \in {"no_candidates", "empty_candidates"} -> fallback_portfolio_advisory
      [] OTHER ->
         LET json_text == search_braces(resp.text)
             repaired  == repair(json_text)
         IN IF json_text = <<>> THEN fallback_portfolio_advisory
            ELSE IF json_loads(repaired)
            THEN PResult("parsed", ParsedValue(repaired), repaired, FALSE, NoScore, <<>>, Absent,
                         {"_complete_ai_response", "_json_text", "metadata"})
            ELSE LET analysis == extract_data_with_regex(resp.text, mode, positions)
                 IN IF analysis # NoPResult
                    THEN mark_extraction(analysis, "regex_fallback", {})
                    ELSE mark_extraction([fallback_portfolio_advisory EXCEPT !.path = "complete_fallback"],
                                         "complete_fallback", {"error"})

\* a variant whose handler lets the exception through
process_portfolio_response_reraise(resp, mode, positions) ==
    process_portfolio_response_try(resp, mode, positions)

\* lines 845-921: the body with the handler of lines 919-921
process_portfolio_response(resp, mode, positions) ==
    LET r == process_portfolio_response_try(resp, mode, positions)
    IN IF r.raised THEN fallback_portfolio_advisory ELSE r

\* ---- the texts a model reply can hold ----
Key(k) == <<QT, k, QT>>
Member(k, v) == Key(k) \o <<CL, SP>> \o v
JsonValues ==
    {<<"1">>, <<"7">>, <<QT, "high", QT>>, <<QT, CM, RB, QT>>, <<QT, LB, QT>>,
     <<LB, QT, "b", QT, CL, SP, "1", RB>>, <<LK, "1", CM, SP, "7", RK>>}
Members == {Member(k, v) : k \in {"a", "overall_score", "overall_risk"}, v \in JsonValues}
SecondMembers == {Member("b", <<"1">>), Member("overall_risk", <<QT, "high", QT>>)}
SingleMemberObjects == {<<LB, RB>>} \cup {<<LB>> \o m \o <<RB>> : m \in Members}
WellFormedObjects ==
    SingleMemberObjects
    \cup {<<LB>> \o m \o <<CM, SP>> \o n \o <<RB>> : m \in Members, n \in SecondMembers}
\* a comma before the closing brace
TrailingComma(w) == SubSeq(w, 1, Len(w) - 1) \o <<CM, RB>>
WithTrailingComma == {TrailingComma(w) : w \in WellFormedObjects \ {<<LB, RB>>}}
\* replies cut off by the token limit
Truncated == UNION {{SubSeq(w, 1, n) : n \in 1..(Len(w) - 1)} : w \in WellFormedObjects}
ProseBefore == {<<>>, <<"prose", SP>>, <<LB, "prose", SP>>}
ProseAfter == {<<>>, <<SP, "prose">>, <<SP, "prose", RB>>}
Embedded ==
    {pre \o core \o post : pre \in ProseBefore, post \in ProseAfter,
                           core \in SingleMemberObjects \cup {TrailingComma(w) : w \in SingleMemberObjects \ {<<LB, RB>>}}}
NoBraceTexts ==
    {<<>>, <<"prose">>} \cup {pre \o m \o post : pre \in {<<>>, <<"prose", SP>>}, m \in Members, post \in {<<>>, <<SP, "prose">>}}
PunctuationTokens == {LB, RB, CM, CL, QT, "a", "1"}
RECURSIVE TextsUpTo(_)
TextsUpTo(n) ==
    IF n = 0 THEN {<<>>}
    ELSE LET shorter == TextsUpTo(n - 1)
         IN shorter \cup {Append(t, x) : t \in {u \in shorter : Len(u) = n - 1}, x \in PunctuationTokens}
ReplyTexts ==
    WellFormedObjects \cup WithTrailingComma \cup Truncated \cup Embedded
    \cup NoBraceTexts \cup TextsUpTo(MaxTextLen)

Responses ==
    [shape : ResponseShapes \ {"text"}, text : {<<>>}] \cup [shape : {"text"}, text : ReplyTexts]

PInit ==
    /\ ppc = "idle"
    /\ presponse = [shape |-> "no_candidates", text |-> <<>>]
    /\ pmode = "long_term"
    /\ ppositions = TRUE
    /\ presult = NoPResult

\* generate_portfolio_advisory hands the model's response to the parser
process_call(resp, mode, positions) ==
    /\ ppc = "idle"
    /\ ppc' = "called"
    /\ presponse' = resp
    /\ pmode' = mode
    /\ ppositions' = positions
    /\ presult' = NoPResult
    /\ UNCHANGED notp

\* _process_portfolio_response runs
process_run ==
    /\ ppc = "called"
    /\ ppc' = "done"
    /\ presult' = process_portfolio_response(presponse, pmode, ppositions)
    /\ UNCHANGED <<presponse, pmode, ppositions, notp>>

\* the caller has the analysis; the locals of the call are gone
process_return ==
    /\ ppc = "done"
    /\ ppc' = "idle"
    /\ presponse' = [shape |-> "no_candidates", text |-> <<>>]
    /\ pmode' = "long_term"
    /\ ppositions' = TRUE
    /\ presult' = NoPResult
    /\ UNCHANGED notp

(***************************************************************************)
(* Part 6: AIAdvisor.generate_advisory (ai_advisor.py:18-26) and           *)
(* EnhancedAIAdvisor.generate_portfolio_advisory                           *)
(* (enhanced_ai_advisor.py:112-131) with the _call_ai_model each one calls *)
(* The waits of the decorators are those of Part 3 and are left out here.  *)
(***************************************************************************)
Advisors == {"advisor", "enhanced"}
\* the prompt's list of actions, ai_advisor.py:44, tests/test_advisory.py:44
Actions == {"hold", "add_small", "add", "trim", "take_profit", "reduce", "exit"}
AdvisoryKeys == {"action", "rationale", "key_signals", "risk_notes", "levels", "next_checks"}
\* keys of _fallback_portfolio_advisory, enhanced_ai_advisor.py:1074-1099
PortfolioFallbackKeys == {"portfolio_health", "diversification", "action_items", "metadata", "error"}
\* pl_pct_vs_avg and pct_to_target, in percent
StockData == [pl_pct_vs_avg : {-20, 0, 10}, pct_to_target : {0, 10, 20}]
NoStock == [pl_pct_vs_avg |-> 0, pct_to_target |-> 0]

\* what the model endpoint answers to one request
ModelReplies ==
    [kind : {"timeout", "http_error", "no_candidates", "text_no_json", "json_list"}, action : {Absent}]
    \cup [kind : {"json"}, action : Actions \cup {"buy", Absent}]
NoReply == [kind |-> "none", action |-> Absent]

Advisory(origin, keys, action) == [origin |-> origin, keys |-> keys, action |-> action]
NoAdvisory == Advisory("none", {}, Absent)

\* keyword arguments passed at enhanced_ai_advisor.py:819-824 and 835-841
EnhancedLogResponseKwargs == {"request_id", "provider", "response_text", "duration_ms", "error"}

\* one run of the function under the decorator: [ok, posts]
\* AIAdvisor._call_gemini, ai_advisor.py:142-220
call_gemini(reply) ==
    IF ~log_ai_request(FallbackLogKwargs) THEN [ok |-> FALSE, posts |-> 0]
    ELSE CASE reply.kind \in {"timeout", "http_error"} -> [ok |-> FALSE, posts |-> 1]
           [] reply.kind = "no_candidates" -> [ok |-> FALSE, posts |-> 1]
           [] OTHER ->
                IF ~log_ai_response(FallbackLogResponseKwargs) THEN [ok |-> FALSE, posts |-> 1]
                ELSE [ok |-> reply.kind \in {"json", "json_list"}, posts |-> 1]

\* EnhancedAIAdvisor._call_ai_model, enhanced_ai_advisor.py:783-843
enhanced_call_ai_model(reply) ==
    IF ~log_ai_request(EnhancedLogKwargs) THEN [ok |-> FALSE, posts |-> 0]
    ELSE IF reply.kind \in {"timeout", "http_error"} THEN [ok |-> FALSE, posts |-> 1]
    ELSE [ok |-> log_ai_response(EnhancedLogResponseKwargs \ {"error"}), posts |-> 1]

call_once(w, reply) == IF w = "advisor" THEN call_gemini(reply) ELSE enhanced_call_ai_model(reply)

\* AIAdvisor._process_response, ai_advisor.py:222-231
process_response(reply) ==
    Advisory("model", AdvisoryKeys, IF reply.action = Absent THEN "hold" ELSE reply.action)

\* a variant whose last rule answers with an action outside the list
fallback_advisory_buy(stock) ==
    Advisory("fallback", AdvisoryKeys,
             IF stock.pl_pct_vs_avg < -10 THEN "reduce"
             ELSE IF stock.pct_to_target > 15 THEN "take_profit"
             ELSE IF stock.pl_pct_vs_avg > 0 /\ stock.pct_to_target > 5 THEN "hold"
             ELSE "buy")

\* AIAdvisor._fallback_advisory, ai_advisor.py:284-305
fallback_advisory(stock) ==
    Advisory("fallback", AdvisoryKeys,
             IF stock.pl_pct_vs_avg < -10 THEN "reduce"
             ELSE IF stock.pct_to_target > 15 THEN "take_profit"
             ELSE IF stock.pl_pct_vs_avg > 0 /\ stock.pct_to_target > 5 THEN "hold"
             ELSE "add_small")

\* a variant of the handler of generate_portfolio_advisory that re-raises
portfolio_handler_reraises == TRUE

\* enhanced_ai_advisor.py:129-131: the handler returns the fallback, so the
\* decorator of generate_portfolio_advisory never sees an exception
portfolio_handler_raises == FALSE

AInit ==
    /\ apc = "idle"
    /\ aw = "advisor"
    /\ astock = NoStock
    /\ areply = NoReply
    /\ aouter = 0
    /\ ainner = 0
    /\ aposts = 0
    /\ aresult = NoAdvisory
    /\ araised = FALSE

\* generate_advisory(stock_data) / generate_portfolio_advisory(portfolio_data) is called
advisory_call(w, stock) ==
    /\ apc = "idle"
    /\ apc' = "call"
    /\ aw' = w
    /\ astock' = stock
    /\ aouter' = 1
    /\ UNCHANGED <<areply, ainner, aposts, aresult, araised, nota>>

\* one attempt of the decorated _call_ai_model; after stop_after_attempt failed
\* attempts the decorator raises RetryError into the caller's try block
call_ai_model_attempt(reply) ==
    /\ apc = "call"
    /\ LET o == call_once(aw, reply)
       IN /\ aposts' = aposts + o.posts
          /\ areply' = reply
          /\ ainner' = ainner + 1
          /\ apc' = IF o.ok THEN "process"
                    ELSE IF ainner + 1 >= stop_after_attempt THEN "except"
                    ELSE "call"
    /\ UNCHANGED <<aw, astock, aouter, aresult, araised, nota>>

\* ai_advisor.py:23 / enhanced_ai_advisor.py:127: the response is processed
advisory_process ==
    /\ apc = "process"
    /\ IF aw = "advisor"
       THEN IF areply.kind = "json_list"
            THEN apc' = "except" /\ aresult' = aresult
            ELSE apc' = "done" /\ aresult' = process_response(areply)
       ELSE apc' = "done" /\ aresult' = Advisory("model", {"metadata"}, Absent)
    /\ UNCHANGED <<aw, astock, areply, aouter, ainner, aposts, araised, nota>>

\* ai_advisor.py:24-26 / enhanced_ai_advisor.py:129-131: the handler
advisory_except ==
    /\ apc = "except"
    /\ IF aw = "advisor"
       THEN /\ apc' = "done"
            /\ aresult' = fallback_advisory(astock)
            /\ UNCHANGED <<aouter, ainner, araised>>
       ELSE IF ~portfolio_handler_raises
            THEN /\ apc' = "done"
                 /\ aresult' = Advisory("fallback", PortfolioFallbackKeys, Absent)
                 /\ UNCHANGED <<aouter, ainner, araised>>
            ELSE IF aouter < stop_after_attempt
                 THEN /\ apc' = "call"
                      /\ aouter' = aouter + 1
                      /\ ainner' = 0
                      /\ UNCHANGED <<aresult, araised>>
                 ELSE /\ apc' = "done"
                      /\ araised' = TRUE
                      /\ UNCHANGED <<aresult, aouter, ainner>>
    /\ UNCHANGED <<aw, astock, areply, aposts, nota>>

\* the caller has the advisory; the locals of the call are gone
advisory_return ==
    /\ apc = "done"
    /\ apc' = "idle"
    /\ aw' = "advisor"
    /\ astock' = NoStock
    /\ areply' = NoReply
    /\ aouter' = 0
    /\ ainner' = 0
    /\ aposts' = 0
    /\ aresult' = NoAdvisory
    /\ araised' = FALSE
    /\ UNCHANGED nota

(***************************************************************************)
(* Part 7: EnhancedAdvisoryEngine.generate_dual_advisory_with_emails       *)
(* (enhanced_engine.py:640-739) and _initialize_ai_advisor (38-79)         *)
(***************************************************************************)
\* modes the engine can have been constructed with (override or user config)
EngineModes == {"long_term", "swing_trader", "conservative", "entry_exit_strategy"}

\* lines 648-657
NoDualResults ==
    [kind |-> "none", success |-> FALSE, regular |-> FALSE, entry_exit |-> FALSE,
     email_regular |-> FALSE, email_entry_exit |-> FALSE]
\* lines 733-739
DualError == [NoDualResults EXCEPT !.kind = "error"]

EInit ==
    /\ epc = "idle"
    /\ emode \in EngineModes
    /\ eoriginal = Absent
    /\ erecipient = FALSE
    /\ eresults = NoDualResults

\* lines 645-660: results is built and original_mode is read
dual_call(recipient) ==
    /\ epc = "idle"
    /\ epc' = "init_regular"
    /\ erecipient' = recipient
    /\ eoriginal' = emode
    /\ eresults' = [NoDualResults EXCEPT !.kind = "results"]
    /\ UNCHANGED <<emode, note>>

\* _initialize_ai_advisor(mode), lines 38-79: either a new advisor in that mode
\* is assigned (line 69), or the exception of line 79 reaches the handler of
\* generate_dual_advisory_with_emails (733-739) with self.ai_advisor untouched
initialize_ai_advisor(mode, ok, next) ==
    IF ok
    THEN /\ emode' = mode
         /\ epc' = next
         /\ UNCHANGED eresults
    ELSE /\ emode' = emode
         /\ epc' = "done"
         /\ eresults' = DualError

\* line 664
dual_initialize_regular(ok) ==
    /\ epc = "init_regular"
    /\ initialize_ai_advisor("long_term", ok, "regular")
    /\ UNCHANGED <<eoriginal, erecipient, note>>

\* lines 665-687: generate_daily_advisory (it catches its own errors) and the
\* first email
dual_regular(success, sent) ==
    /\ epc = "regular"
    /\ epc' = "init_entry_exit"
    /\ eresults' = [eresults EXCEPT !.regular = success,
                                    !.email_regular = erecipient /\ success /\ sent]
    /\ UNCHANGED <<emode, eoriginal, erecipient, note>>

\* line 693
dual_initialize_entry_exit(ok) ==
    /\ epc = "init_entry_exit"
    /\ initialize_ai_advisor("entry_exit_strategy", ok, "entry_exit")
    /\ UNCHANGED <<eoriginal, erecipient, note>>

\* lines 694-713
dual_entry_exit(success, sent) ==
    /\ epc = "entry_exit"
    /\ epc' = "restore"
    /\ eresults' = [eresults EXCEPT !.entry_exit = success,
                                    !.email_entry_exit = erecipient /\ success /\ sent]
    /\ UNCHANGED <<emode, eoriginal, erecipient, note>>

\* lines 715-731: the original mode is restored and the results are returned
dual_restore(ok) ==
    /\ epc = "restore"
    /\ IF ok
       THEN /\ emode' = eoriginal
            /\ epc' = "done"
            /\ eresults' = [eresults EXCEPT !.success = eresults.regular /\ eresults.entry_exit]
       ELSE initialize_ai_advisor(eoriginal, FALSE, "done")
    /\ UNCHANGED <<eoriginal, erecipient, note>>

\* the caller has the dict; the locals of the call are gone, the advisor stays
dual_return ==
    /\ epc = "done"
    /\ epc' = "idle"
    /\ eoriginal' = Absent
    /\ erecipient' = FALSE
    /\ eresults' = NoDualResults
    /\ UNCHANGED <<emode, note>>

(***************************************************************************)
(* Part 8: HoldingsOnlyProvider.get_holdings / load_holdings               *)
(* (holdings_provider.py:32-58)                                            *)
(***************************************************************************)
\* lines 29-30: None, for the version loaded and for the load time
HNone == -1
\* line 56: the age above which the file is reloaded
reload_after == 300
\* timedelta normalises into days and 0 <= seconds < 86400
SecondsPerDay == 86400
\* (datetime.now() - self.last_load_time).seconds, for a clock that does not go back
timedelta_seconds(delta) == delta % SecondsPerDay

\* how far the clock moves between two events
ClockSteps == {100, 250, SecondsPerDay}

NoHoldings == [kind |-> "none", value |-> HNone, age |-> 0, reloaded |-> FALSE]

HInit ==
    /\ hnow = 0
    /\ hticks = 0
    /\ hfile = 1
    /\ cached_holdings = HNone
    /\ last_load_time = HNone
    /\ hreturned = NoHoldings

\* time passes
holdings_tick(d) ==
    /\ hticks < MaxHoldingsTicks
    /\ hticks' = hticks + 1
    /\ hnow' = hnow + d
    /\ UNCHANGED <<hfile, cached_holdings, last_load_time, hreturned, noth>>

\* the user edits holdings.json
holdings_edit ==
    /\ hfile >= 1 /\ hfile < MaxFileVersion
    /\ hfile' = hfile + 1
    /\ UNCHANGED <<hnow, hticks, cached_holdings, last_load_time, hreturned, noth>>

\* the file is deleted / written again
holdings_remove ==
    /\ hfile >= 1
    /\ hfile' = 0
    /\ UNCHANGED <<hnow, hticks, cached_holdings, last_load_time, hreturned, noth>>

holdings_restore ==
    /\ hfile = 0
    /\ hfile' = 1
    /\ UNCHANGED <<hnow, hticks, cached_holdings, last_load_time, hreturned, noth>>

\* lines 54-56: the condition under which get_holdings reloads
must_reload ==
    \/ cached_holdings = HNone
    \/ last_load_time = HNone
    \/ timedelta_seconds(hnow - last_load_time) > reload_after

\* get_holdings, lines 52-58, with the load_holdings it calls, lines 32-50
get_holdings ==
    /\ IF must_reload
       THEN IF hfile = 0
            THEN /\ hreturned' = [kind |-> "raised", value |-> HNone, age |-> 0, reloaded |-> FALSE]
                 /\ UNCHANGED <<cached_holdings, last_load_time>>
            ELSE /\ cached_holdings' = hfile
                 /\ last_load_time' = hnow
                 /\ hreturned' = [kind |-> "returned", value |-> hfile, age |-> 0, reloaded |-> TRUE]
       ELSE /\ hreturned' = [kind |-> "returned", value |-> cached_holdings,
                             age |-> hnow - last_load_time, reloaded |-> FALSE]
            /\ UNCHANGED <<cached_holdings, last_load_time>>
    /\ UNCHANGED <<hnow, hticks, hfile, noth>>

(***************************************************************************)
(* Specifications                                                          *)
(***************************************************************************)
Init == QInit /\ GInit /\ RInit /\ VInit /\ PInit /\ AInit /\ EInit /\ HInit

QNext ==
    \/ \E t \in Tickers : get_quote(t)
    \/ \E resp \in SsiResponses : get_quote_try(resp)
    \/ get_quote_except
    \/ \E resp \in CafefResponses : get_quote_cafef_try(resp)
    \/ get_quote_cafef_except
    \/ \E reply \in AiReplies : get_quote_ai_fallback_try(reply)
    \/ get_quote_ai_fallback_except
    \/ get_basic_price_estimate
    \/ get_quote_return

GNext ==
    \/ \E t \in Threads : rate_limit_read_clock(t)
    \/ \E t \in Threads : rate_limit_check(t)
    \/ \E t \in Threads : rate_limit_wake(t)
    \/ \E t \in Threads : rate_limit_stamp(t)
    \/ Tick

RNext ==
    \/ \E w \in Wrappers, m \in 0..MaxRetriesBound, i \in 1..MaxInitialDelay : retry_call(w, m, i)
    \/ \E o \in {"ok", "TypeError"} \cup Errors : retry_attempt(o)
    \/ retry_sleep_done
    \/ retry_return

VNext ==
    \/ \E t \in Tickers : vc_get_quote(t)
    \/ \E resp \in VcResponses : vc_get_quote_try(resp)
    \/ vc_get_quote_except
    \/ \E reply \in AiReplies : vc_ai_fallback_try(reply)
    \/ vc_ai_fallback_except
    \/ vc_return

PNext ==
    \/ \E resp \in Responses, mode \in AdvisoryModes, positions \in BOOLEAN :
            process_call(resp, mode, positions)
    \/ process_run
    \/ process_return

ANext ==
    \/ \E w \in Advisors, stock \in StockData : advisory_call(w, stock)
    \/ \E reply \in ModelReplies : call_ai_model_attempt(reply)
    \/ advisory_process
    \/ advisory_except
    \/ advisory_return

ENext ==
    \/ \E recipient \in BOOLEAN : dual_call(recipient)
    \/ \E ok \in BOOLEAN : dual_initialize_regular(ok)
    \/ \E success \in BOOLEAN, sent \in BOOLEAN : dual_regular(success, sent)
    \/ \E ok \in BOOLEAN : dual_initialize_entry_exit(ok)
    \/ \E success \in BOOLEAN, sent \in BOOLEAN : dual_entry_exit(success, sent)
    \/ \E ok \in BOOLEAN : dual_restore(ok)
    \/ dual_return

HNext ==
    \/ \E d \in ClockSteps : holdings_tick(d)
    \/ holdings_edit
    \/ holdings_remove
    \/ holdings_restore
    \/ get_holdings

SpecQuote == Init /\ [][QNext]_vars
SpecGate == Init /\ [][GNext]_vars
SpecRetry == Init /\ [][RNext]_vars
SpecVietCap == Init /\ [][VNext]_vars
SpecParse == Init /\ [][PNext]_vars
SpecAdvisory == Init /\ [][ANext]_vars
SpecEngine == Init /\ [][ENext]_vars
SpecHoldings == Init /\ [][HNext]_vars

Next == QNext \/ GNext \/ RNext \/ VNext \/ PNext \/ ANext \/ ENext \/ HNext
Spec == Init /\ [][Next]_vars

(***************************************************************************)
(* Properties of the quote chain (SpecQuote)                               *)
(***************************************************************************)
AllSourcesFailed == \A s \in FallibleSources : finished[s] = "failed"

\* C1: a get_quote call never raises; whatever the SSI, CafeF and AI sources
\* do, the caller is handed exactly one quote dict for the requested ticker.
QuoteNeverRaises ==
    /\ ~raised
    /\ returns <= 1
    /\ pc = "done" => /\ returns = 1
                      /\ result # NoResult
                      /\ BaseKeys \subseteq result.keys
                      /\ result.ticker = ticker

QuoteReturnedAfterThreeFailures ==
    pc = "done" /\ returns = 1 /\ Len(failureLog) = 3 /\ ~raised

\* C2: first success wins: a source that produced a value is the last source
\* entered in the call; the call is over and the value is the one returned.
FirstSuccessWins ==
    \A i \in 1..Len(invoked) :
        finished[invoked[i]] = "ok" =>
            /\ i = Len(invoked)
            /\ pc = "done"
            /\ inflight = {}
            /\ returns = 1

CafefSuccessEndsCall ==
    pc = "done" /\ finished["CafeF"] = "ok" /\ result.price > 0 /\ invoked = <<"SSI", "CafeF">>

\* C3 (as stated): when every source failed the terminal result carries one
\* failure reason per source, so it holds at least as many warnings as sources.
TerminalCarriesEveryReason ==
    (pc = "done" /\ AllSourcesFailed) =>
        /\ ~raised
        /\ result.source = "Basic_Estimate"
        /\ Len(Warnings(result)) >= Cardinality(FallibleSources)

\* C3 (amended): when every source failed the call returns, without raising,
\* the Basic_Estimate dict with confidence 0.3 and a positive price; the dict
\* carries the single fixed note, and the per-source failure reasons are in
\* the log only, one line for each failed source.
TerminalCarriesOneNote ==
    (pc = "done" /\ AllSourcesFailed) =>
        /\ ~raised
        /\ result.source = "Basic_Estimate"
        /\ result.confidence = 30
        /\ result.price > 0
        /\ Warnings(result) = <<"Basic fallback price estimate">>
        /\ Len(failureLog) = Cardinality(FallibleSources)
        /\ {failureLog[i].source : i \in 1..Len(failureLog)} = FallibleSources

TerminalResultReturned ==
    pc = "done" /\ AllSourcesFailed /\ result.source = "Basic_Estimate" /\ Len(Warnings(result)) = 1

\* C4: no quote with price <= 0 is ever returned; a source answering with such
\* a price counts as failed.
NoNonPositivePrice ==
    pc = "done" => result.price > 0

\* C5: sources run strictly one after another in the order SSI, CafeF, AI,
\* basic: at most one is in flight, the sources entered form a prefix of that
\* order, and every source entered before the latest one finished by failing.
SourcesStrictlySequential ==
    /\ Cardinality(inflight) <= 1
    /\ Len(invoked) <= Len(Sources)
    /\ \A i \in 1..Len(invoked) :
        /\ invoked[i] = Sources[i]
        /\ \A j \in 1..(i - 1) : finished[invoked[j]] = "failed"
    /\ \A s \in inflight : Len(invoked) >= 1 /\ s = invoked[Len(invoked)]

AiInFlightAfterTwoFailures ==
    pc = "ai" /\ inflight = {"AI"} /\ invoked = <<"SSI", "CafeF", "AI">>

(***************************************************************************)
(* Properties of the rate-limit gate (SpecGate)                            *)
(***************************************************************************)
\* C6: the gate serializes its callers: any two passes through the gate are
\* at least min_request_interval apart.
GateSerializes ==
    \A i, j \in 1..Len(passes) :
        i < j => passes[j] - passes[i] >= min_request_interval

(***************************************************************************)
(* Properties of the retry wrappers (SpecRetry)                            *)
(***************************************************************************)
Last(s) == s[Len(s)]
AllAttemptsFailed == rpc = "done" /\ Len(attempts) = rmax + 1 /\ Last(attempts) # "ok"
\* the delay the wrapper starts from: initial_delay of retry_with_backoff, and
\* the 4 units at which the waits of the decorated methods start
base_delay == IF rw = "helper" THEN rinit ELSE wait_min
FailFailSucceed ==
    /\ rpc = "done" /\ rmax = 2 /\ Len(attempts) = 3
    /\ attempts[1] # "ok" /\ attempts[2] # "ok" /\ attempts[3] = "ok"

\* C7: the wrapped operation is attempted at most max_retries + 1 times, and
\* never again after an attempt that succeeded.
AttemptsBounded ==
    /\ Len(attempts) <= rmax + 1
    /\ \A i \in 1..Len(attempts) :
        attempts[i] = "ok" => i = Len(attempts) /\ rpc \in {"done", "idle"}

AllAttemptsUsed ==
    rpc = "done" /\ rmax >= 2 /\ Len(attempts) = rmax + 1 /\ routcome.kind = "raised"

\* C8: an operation whose first attempt ends in a terminal failure (4xx other
\* than 429, not found) is not retried: the attempt count stays 1.
TerminalNeverRetried ==
    (Len(attempts) >= 1 /\ attempts[1] \in TerminalErrors) =>
        Len(attempts) = 1 /\ sleeps = <<>>

\* C9 (as stated): when all max_retries + 1 attempts failed the wrapper hands
\* its caller a failure value describing the last error and does not raise.
ExhaustionReturnsFailure ==
    AllAttemptsFailed =>
        routcome.kind # "raised" /\ routcome.cause = Last(attempts)

\* C9 (amended): when all max_retries + 1 attempts failed the wrapper raises:
\* retry_with_backoff re-raises the exception of the last attempt, the
\* decorated _call_ai_model raises RetryError wrapping the last attempt.
ExhaustionRaisesLastError ==
    AllAttemptsFailed =>
        /\ routcome.kind = "raised"
        /\ routcome.cause = Last(attempts)
        /\ routcome.exc = IF rw = "helper" THEN Last(attempts) ELSE "RetryError"

ExhaustedAfterDifferentErrors ==
    AllAttemptsFailed /\ rmax >= 1 /\ attempts[1] # Last(attempts) /\ routcome.kind = "raised"

\* C10 (as stated): two failures then a success with max_retries = 2 gives the
\* successful result after sleeping at least base_delay + 2 * base_delay.
ThirdAttemptAfterFullBackoff ==
    FailFailSucceed =>
        /\ routcome.kind = "returned"
        /\ SumSeq(sleeps) >= base_delay + 2 * base_delay

\* C10 (amended): two failures then a success with max_retries = 2 gives the
\* successful result; retry_with_backoff has then slept initial_delay +
\* 2 * initial_delay, the decorated _call_ai_model 4 + 4, twice its base delay.
ThirdAttemptAfterBackoff ==
    FailFailSucceed =>
        /\ routcome.kind = "returned"
        /\ Len(sleeps) = 2
        /\ SumSeq(sleeps) >= IF rw = "helper" THEN base_delay + 2 * base_delay
                                              ELSE 2 * base_delay

ThirdAttemptSucceeded ==
    FailFailSucceed /\ rw = "enhanced" /\ routcome.kind = "returned" /\ SumSeq(sleeps) = 8

(***************************************************************************)
(* Further properties of the quote chains (SpecQuote, SpecVietCap)         *)
(***************************************************************************)
\* C11: a transient failure of a source (here: the SSI price request timing
\* out) is retried before the chain gives up on the source and advances, so
\* the request is issued more than once.
TransientFailureRetried ==
    \A i \in 1..Len(failureLog) :
        (failureLog[i].source = "SSI" /\ failureLog[i].reason = "Timeout") =>
            CountOf(requests, "SSI_price") >= 2

\* C12: in VietCapitalProvider.get_quote a terminal error of the primary API
\* (404 not found, another 4xx) is an ordinary source failure: the chain
\* advances to the AI estimate and the caller gets a quote, not an exception.
VcTerminalErrorAdvances ==
    (vpc = "done" /\ vprimary \in {"http_404", "http_400"}) =>
        /\ vraised = Absent
        /\ vresult # NoResult
        /\ CountOf(vinvoked, "AI") = 1

\* C20 (as stated): when the sources before B failed and B succeeded, the
\* result names B as its source and carries B's confidence.
SuccessNamesItsSource ==
    (pc = "done" /\ Len(invoked) >= 2 /\ invoked[Len(invoked)] \in FallibleSources
        /\ finished[invoked[Len(invoked)]] = "ok") =>
        /\ "source" \in result.keys
        /\ "confidence" \in result.keys

\* C20 (amended): when SSI failed and CafeF succeeded the result is CafeF's
\* dict for the requested ticker, which has neither a source nor a confidence
\* entry; a result names its producer only when it is an estimate: the basic
\* estimate says Basic_Estimate with confidence 0.3, the AI estimate
\* AI_Estimate with the confidence read from the model's reply.
SuccessReturnsSourceDict ==
    pc = "done" =>
        /\ finished["CafeF"] = "ok" =>
            /\ finished["SSI"] = "failed"
            /\ result.keys = BaseKeys
            /\ result.source = Absent
            /\ result.ticker = ticker
        /\ finished["Basic"] = "ok" =>
            /\ result.keys = EstimateKeys
            /\ result.source = "Basic_Estimate"
            /\ result.confidence = 30
        /\ finished["AI"] = "ok" =>
            /\ result.keys = EstimateKeys
            /\ result.source = "AI_Estimate"

CafefResultHasNoSource ==
    /\ pc = "done" /\ finished["SSI"] = "failed" /\ finished["CafeF"] = "ok"
    /\ "source" \notin result.keys /\ "confidence" \notin result.keys

(***************************************************************************)
(* Claims about the response parser                                        *)
(***************************************************************************)
ParserDone == ppc = "done" /\ presponse.shape = "text"
ExtractedJson == search_braces(presponse.text)
BraceFree(s) == CountOf(s, LB) = 0 /\ CountOf(s, RB) = 0
TrailingCommaObject == <<LB, QT, "a", QT, CL, SP, "1", CM, RB>>
ObjectA1 == <<LB, QT, "a", QT, CL, "1", RB>>

\* C13: _process_portfolio_response, with _extract_data_with_regex inside it,
\* never raises: whatever the response holds (not a dict, no or empty
\* candidates, a malformed candidate, empty text, no braces, unparseable JSON)
\* the call hands back one of its four kinds of analysis dict.
ParserNeverRaises ==
    ppc = "done" =>
        /\ presult.raised = FALSE
        /\ presult.path \in {"parsed", "regex_fallback", "complete_fallback", "fallback"}

ParserSurvivedMalformedResponse ==
    /\ ppc = "done"
    /\ presponse.shape = "malformed_candidate"
    /\ presult.path = "fallback"

\* C14: for every reply that is one well-formed JSON object, the parser hands
\* back the value a direct json.loads of the reply gives, not marked as
\* extracted by a fallback: the clean-up substitutions leave valid content alone.
WellFormedParsedUnchanged ==
    (ParserDone /\ IsJsonObject(presponse.text)) =>
        /\ presult.path = "parsed"
        /\ presult.value = ParsedValue(presponse.text)
        /\ presult.extraction_method = Absent

\* C15 (as stated): for every reply holding {"a": 1,} inside unrelated prose the
\* parser hands back {"a": 1} marked as degraded.
TrailingCommaMarkedDegraded ==
    \A pre \in ProseBefore, post \in ProseAfter :
        (ParserDone /\ presponse.text = pre \o TrailingCommaObject \o post) =>
            /\ presult.value = ObjectA1
            /\ presult.extraction_method # Absent

\* C15 (amended): for every reply holding {"a": 1,} inside prose without braces
\* the parser hands back the parsed object {"a": 1}; the result carries the
\* repaired text under _json_text and no extraction marker.
TrailingCommaRepairedUnmarked ==
    \A pre \in ProseBefore, post \in ProseAfter :
        (/\ ParserDone
         /\ presponse.text = pre \o TrailingCommaObject \o post
         /\ BraceFree(pre) /\ BraceFree(post)) =>
            /\ presult.path = "parsed"
            /\ presult.value = ObjectA1
            /\ presult.extraction_method = Absent
            /\ "_extraction_method" \notin presult.extra
            /\ "_json_text" \in presult.extra

TrailingCommaInProseParsed ==
    /\ ParserDone
    /\ presponse.text = <<"prose", SP>> \o TrailingCommaObject \o <<SP, "prose">>
    /\ presult.path = "parsed"

\* C16: for every reply with exactly one unmatched opening brace, also when it
\* holds no closing brace at all, the parser hands back the value parsed from
\* the reply with the missing brace appended.
UnmatchedBraceRepaired ==
    (/\ ParserDone
     /\ CountOf(presponse.text, LB) - CountOf(presponse.text, RB) = 1
     /\ IsJsonObject(presponse.text \o <<RB>>)) =>
        /\ presult.path = "parsed"
        /\ presult.value = ParsedValue(presponse.text \o <<RB>>)

\* C17: a reply without any opening brace goes to regex extraction: when it
\* holds "overall_score": 7 the result is the partial analysis with
\* overall_score 7, marked as extracted by regex.
NoBraceFallsToRegex ==
    (ParserDone /\ CountOf(presponse.text, LB) = 0 /\ score_match(presponse.text) # <<>>) =>
        /\ presult.path = "regex_fallback"
        /\ presult.overall_score = IntOf(score_match(presponse.text))

\* C18: when regex extraction matches neither critical field (overall_score,
\* overall_risk) the parser does not hand back a partial analysis built from
\* defaults alone.
NoCriticalFieldNoPartial ==
    (/\ ParserDone
     /\ score_match(presponse.text) = <<>>
     /\ risk_match(presponse.text) = <<>>) =>
        presult.path # "regex_fallback"

\* C19 (as stated): a parsed or regex-extracted result is marked as degraded
\* exactly when a repair step (a syntax repair or regex extraction) was needed.
MarkedIffRepaired ==
    (ParserDone /\ presult.path \in {"parsed", "regex_fallback"}) =>
        (presult.extraction_method # Absent
            <=> (presult.path = "regex_fallback" \/ presult.json_text # ExtractedJson))

\* C19 (amended): the result carries _extraction_method exactly when json.loads
\* rejected the cleaned-up text (regex extraction or the complete fallback ran);
\* a result parsed from the text, repaired by the clean-up or not, carries none.
MarkedIffParseFailed ==
    ParserDone =>
        /\ presult.extraction_method # Absent
              <=> (ExtractedJson # <<>> /\ ~json_loads(repair(ExtractedJson)))
        /\ "_extraction_method" \in presult.extra <=> presult.extraction_method # Absent
        /\ presult.path = "parsed" => presult.extraction_method = Absent
        /\ presult.path = "regex_fallback" => presult.extraction_method = "regex_fallback"
        /\ presult.path = "complete_fallback" => presult.extraction_method = "complete_fallback"

SyntaxRepairedUnmarked ==
    /\ ParserDone
    /\ presult.path = "parsed"
    /\ presult.json_text # ExtractedJson
    /\ presult.extraction_method = Absent

(***************************************************************************)
(* Claims about confidence, re-entrancy and the AI estimate                *)
(***************************************************************************)
\* C21: every result of a real source, the AI estimate included, has a
\* confidence in [0,1] (0..100 percent) that is strictly greater than the
\* confidence of the basic estimate returned when all sources failed.
AiEstimateAboveTerminal ==
    (vpc = "done" /\ vresult.source = "AI_Estimate") =>
        /\ vresult.confidence \in 0..100
        /\ vresult.confidence > BasicQuote(vticker).confidence

PortfolioAdvisoryAtMostThreePosts ==
    aw = "enhanced" =>
        /\ aposts <= stop_after_attempt
        /\ aouter <= 1
        /\ araised = FALSE

PortfolioFallbackAfterThreePosts ==
    /\ apc = "done" /\ aw = "enhanced"
    /\ aposts = stop_after_attempt
    /\ aresult.origin = "fallback"

\* C23: within one get_quote call each source (SSI, CafeF, AI, basic estimate)
\* is entered at most once and the sources are entered in chain order only:
\* the call moves forward from one source to the next and never back.
NoReentrancy ==
    /\ Len(invoked) <= Len(Sources)
    /\ invoked = SubSeq(Sources, 1, Len(invoked))
    /\ \A i \in 1..Len(Sources) : CountOf(invoked, Sources[i]) <= 1

ChainWalkedOnce ==
    /\ pc = "done"
    /\ invoked = Sources
    /\ CountOf(invoked, "AI") = 1
    /\ finished["CafeF"] = "failed" /\ finished["AI"] = "failed"

\* C24: the basic estimate is returned only when every source's operation was
\* actually attempted and failed: when SSI and CafeF failed, the request to
\* the generative-model endpoint has been made before the basic estimate is
\* handed back.
BasicOnlyAfterModelRequest ==
    (pc = "done" /\ finished["Basic"] = "ok") => CountOf(requests, "Gemini") >= 1

\* C25: the JSON substring is the span from the first '{' to its matching '}':
\* for a reply made of one JSON object followed by prose, also prose holding a
\* '}', the extracted substring is exactly the object and it is parsed.
BraceDepthExtraction ==
    \A w \in SingleMemberObjects, post \in ProseAfter :
        (ParserDone /\ presponse.text = w \o post) =>
            /\ ExtractedJson = w
            /\ presult.path = "parsed"

\* C26: the repair steps run in a fixed order and the parse is attempted again
\* after each one: once the text parses after the trailing commas are removed,
\* that text is accepted and no later step (bracket balancing) is applied to it.
RepairStopsAtFirstSuccess ==
    (/\ ParserDone
     /\ ExtractedJson # <<>>
     /\ json_loads(sub_trailing_commas(ExtractedJson))) =>
        /\ presult.path = "parsed"
        /\ presult.json_text = sub_trailing_commas(ExtractedJson)

(***************************************************************************)
(* Further properties of the retry wrappers (SpecRetry, SpecAdvisory)      *)
(***************************************************************************)
\* C27 (as stated): in every retry wrapper the sleep before retry number n
\* (n from 0) is base_delay * 2^n capped at the maximum delay, so no sleep
\* exceeds the maximum delay.
SleepIsCappedDoubling ==
    \A i \in 1..Len(sleeps) :
        /\ sleeps[i] = Min(base_delay * Pow(2, i - 1), wait_max)
        /\ sleeps[i] <= wait_max

\* C27 (amended): retry_with_backoff sleeps initial_delay * 2^n before retry n
\* with no upper cap; the decorated _call_ai_model wrappers sleep 2^n clamped
\* into 4..10, which is 4 before each of their two retries.
SleepsAsCoded ==
    \A i \in 1..Len(sleeps) :
        IF rw = "helper"
        THEN sleeps[i] = rinit * Pow(2, i - 1)
        ELSE /\ sleeps[i] = Max(4, Min(Pow(2, i - 1), 10))
             /\ sleeps[i] = 4
             /\ i <= 2

HelperSleepAboveCap ==
    /\ rw = "helper" /\ rinit = 3
    /\ Len(sleeps) = 3
    /\ sleeps[3] = 12
    /\ sleeps[3] > wait_max

(***************************************************************************)
(* Properties of the advisory engine and the holdings cache                *)
(***************************************************************************)
\* C29: when generate_dual_advisory_with_emails has returned, on its normal
\* path and on its error path alike, the engine's AI advisor is in the mode it
\* had before the call.
ModeRestoredAfterDual ==
    epc = "done" => emode = eoriginal

\* C30: get_holdings never hands back cached holdings that were loaded more
\* than 300 seconds earlier, whatever the age of the cache, ages above one day
\* included: the file is reloaded first.
StaleHoldingsNeverReturned ==
    hreturned.kind = "returned" => hreturned.age <= reload_after

====
